---- MODULE Spec2Model ----
(***************************************************************************)
(* The MSC resolver bot (maubot_msc_resolver/msc_resolver.py) as a state   *)
(* machine: a room timeline, bot instances that are handed the timeline's  *)
(* events one after the other, and per instance the position of its        *)
(* respond_to_message coroutine between two awaits.                        *)
(*                                                                         *)
(* Text is a sequence of chunks <<prefix, rest>>.  A chunk whose prefix is *)
(* "msc" in any letter case is a proposal reference, rest being its 1-4    *)
(* digits; a chunk with the empty prefix is text in which the pattern      *)
(* msc(\d{1,4}) does not occur.                                            *)
(*                                                                         *)
(* An instance is handed the next event when its handler of the previous   *)
(* one is over: handlers share no state, so the handlers of one instance   *)
(* are modelled one after the other.  The fields lookups, results,         *)
(* inflight, log and ended of a task, and the field cause of an event,     *)
(* record what happened; the code does not read them.                      *)
(***************************************************************************)
EXTENDS Integers, Sequences, FiniteSets, TLC

VARIABLES bots, inbox, room, cursor, task

vars == <<bots, inbox, room, cursor, task>>

\* Bounds of the model.
MaxTokens == 3
MaxBots == 2

\* ------------------------------------------------------------------ constants
MSC_REPO == "matrix-org/matrix-spec-proposals"

PROPOSAL_LABEL == "proposal"

TEXT == "m.text"

EMOTE == "m.emote"

NOTICE == "m.notice"

\* event.content.get_edit() of a message that edits nothing.
None == "None"

\* ------------------------------------------------------------------ text
Lit(s) == <<"", s>>

Ref(p, digits) == <<p, digits>>

Lower(p) == IF p \in {"msc", "MSC", "Msc", "mSC"} THEN "msc" ELSE p

\* command.passive(r"msc(\d{1,4})", case_insensitive=True, multiple=True):
\* the matches of a body, each the tuple (whole match, digits).
RECURSIVE PassiveMatch(_)
PassiveMatch(body) ==
    IF body = <<>> THEN <<>>
    ELSE LET c == Head(body)
         IN  IF Lower(c[1]) = "msc"
             THEN <<(<<c[1] \o c[2], c[2]>>)>> \o PassiveMatch(Tail(body))
             ELSE PassiveMatch(Tail(body))

\* dict.get(key, default)
Get(d, k, default) == IF k \in DOMAIN d THEN d[k] ELSE default

\* ------------------------------------------------------------------ respond_to_message, lines 53-56
RECURSIVE DedupLoop(_, _, _)
DedupLoop(match, k, ids) ==
    IF k > Len(match) THEN ids
    ELSE LET msc_id == match[k][2]
         IN  IF \E j \in 1..Len(ids) : ids[j] = msc_id
             THEN DedupLoop(match, k + 1, ids)
             ELSE DedupLoop(match, k + 1, Append(ids, msc_id))

\* A faulty variant: every match is kept.
DedupKeepAll(match) == [k \in 1..Len(match) |-> match[k][2]]

Dedup(match) == DedupLoop(match, 1, <<>>)

\* ------------------------------------------------------------------ _resolve_msc
\* response.raise_for_status(): raises ClientResponseError for a status of 400 or more.
RaiseForStatus(status) == status >= 400

\* lines 108-109: the status check of _resolve_msc.
StatusRaises(status) == status /= 200 /\ RaiseForStatus(status)

\* lines 113-117
RECURSIVE LabelLoop(_, _)
LabelLoop(labels, k) ==
    IF k > Len(labels) THEN FALSE
    ELSE IF Get(labels[k], "name", None) = PROPOSAL_LABEL THEN TRUE
    ELSE LabelLoop(labels, k + 1)

\* A faulty variant: any label makes the issue a proposal.
IsMscAny(response_body) == Len(Get(response_body, "labels", <<>>)) > 0

IsMsc(response_body) == LabelLoop(Get(response_body, "labels", <<>>), 1)

\* lines 123-133
MSC(msc_id, response_body) ==
    [id     |-> msc_id,
     title  |-> Get(response_body, "title", <<Lit("Unknown title")>>),
     author |-> "@" \o Get(Get(response_body, "user", <<>>), "login", "Unknown author"),
     url    |-> "https://github.com/" \o MSC_REPO \o "/issues/" \o msc_id]

\* ------------------------------------------------------------------ _format_msc, lines 144-148
\* A faulty variant: the identifier prefix is always written.
FormatAlwaysWithId(msc, with_id) ==
    <<Ref("MSC", msc.id), Lit(": "), Lit("[")>> \o msc.title
        \o <<Lit("]("), Lit(msc.url), Lit(") by "), Lit(msc.author)>>

_format_msc(msc, with_id) ==
    LET formatted_str == <<Lit("[")>> \o msc.title
                            \o <<Lit("]("), Lit(msc.url), Lit(") by "), Lit(msc.author)>>
    IN  IF with_id THEN <<Ref("MSC", msc.id), Lit(": ")>> \o formatted_str
        ELSE formatted_str

\* "\n\n".join(parts)
RECURSIVE Join(_, _)
Join(sep, parts) ==
    IF parts = <<>> THEN <<>>
    ELSE IF Len(parts) = 1 THEN parts[1]
    ELSE parts[1] \o <<sep>> \o Join(sep, Tail(parts))

\* lines 79-89
Compose(mscs) ==
    IF Len(mscs) > 1
    THEN Join(Lit("\n\n"), [k \in 1..Len(mscs) |-> _format_msc(mscs[k], TRUE)])
    ELSE _format_msc(mscs[1], FALSE)

\* ------------------------------------------------------------------ inputs
\* A response of GET /repos/{MSC_REPO}/issues/{msc_id}.  fault "connect": the
\* request fails before any response arrives; fault "payload": the status line
\* arrives and reading the body fails.
Response(fault, status, body) == [fault |-> fault, status |-> status, body |-> body]

NoResponse == Response("none", 0, <<>>)

BodyFull ==
    [labels |-> <<[name |-> "bug"], [name |-> PROPOSAL_LABEL]>>,
     title  |-> <<Lit("Example")>>,
     user   |-> [login |-> "alice"]]

BodyBare == [labels |-> <<[name |-> PROPOSAL_LABEL]>>]

BodyIssue ==
    [labels |-> <<[name |-> "Proposal"], [color |-> "red"]>>,
     title  |-> <<Lit("An issue")>>,
     user   |-> [login |-> "bob"]]

BodyUnlabelled == [title |-> <<Lit("Moved")>>]

BodyTitled ==
    [labels |-> <<[name |-> PROPOSAL_LABEL]>>,
     title  |-> <<Ref("MSC", "7"), Lit(": Example")>>,
     user   |-> [login |-> "alice"]]

Responses ==
    {Response("none", 200, body) : body \in {BodyFull, BodyBare, BodyIssue}}
        \cup {Response("none", 101, BodyBare),
              Response("none", 301, BodyFull),
              Response("none", 301, BodyUnlabelled),
              Response("none", 404, BodyUnlabelled),
              Response("none", 500, BodyFull),
              Response("connect", 0, <<>>),
              Response("payload", 200, <<>>)}

RoomResponses ==
    {Response("none", 200, BodyTitled), Response("none", 200, BodyIssue),
     Response("none", 404, BodyUnlabelled)}

UserChunks ==
    {Ref("msc", "1"), Ref("MSC", "1"), Ref("msc", "42"), Ref("Msc", "1234"), Lit("see ")}

SeqsUpTo(S, n) == UNION {[1..k -> S] : k \in 0..n}

Message(sender, msgtype, edit, body) ==
    [sender |-> sender, msgtype |-> msgtype, edit |-> edit, body |-> body, cause |-> 0]

\* Account 0 is a person; accounts 1..MaxBots are bot accounts.
Messages ==
    {Message(s, ty, ed, body) : s \in {0, 1}, ty \in {TEXT, EMOTE, NOTICE},
                                ed \in {None, "$original"},
                                body \in SeqsUpTo(UserChunks, MaxTokens)}

RoomMessages ==
    {Message(0, TEXT, None, <<Ref("msc", "1")>>),
     Message(0, EMOTE, None, <<Ref("msc", "1"), Ref("MSC", "42")>>),
     Message(0, NOTICE, None, <<Ref("msc", "1")>>),
     Message(0, TEXT, "$original", <<Ref("msc", "1")>>),
     Message(0, TEXT, None, <<Lit("hello")>>)}

\* ------------------------------------------------------------------ the handler's task
InitTask ==
    [pc |-> "done", event |-> 0, msc_ids |-> <<>>, idx |-> 0, mscs |-> <<>>,
     message |-> <<>>, log |-> <<>>, lookups |-> <<>>, results |-> <<>>,
     inflight |-> 0, response |-> NoResponse, ended |-> "none"]

\* The handler leaves: a return, an exception that nothing caught, a cancellation.
Leave(t, how) == [t EXCEPT !.pc = "done", !.ended = how, !.response = NoResponse]

\* A faulty variant: every remaining lookup is started at once.
LoopHeadGather(t, k) ==
    IF k <= Len(t.msc_ids)
    THEN [t EXCEPT !.idx = k, !.log = Append(@, "debug"),
                   !.lookups = @ \o SubSeq(t.msc_ids, k, Len(t.msc_ids)),
                   !.inflight = @ + Len(t.msc_ids) - k + 1, !.pc = "get"]
    ELSE IF t.mscs = <<>>
    THEN Leave([t EXCEPT !.log = Append(@, "debug")], "returned")
    ELSE [t EXCEPT !.message = Compose(t.mscs), !.log = Append(@, "debug"),
                   !.pc = "send"]

\* A faulty variant: the reply is sent as soon as one record is in hand.
LoopHeadEager(t, k) ==
    IF t.mscs /= <<>>
    THEN [t EXCEPT !.message = Compose(t.mscs), !.log = Append(@, "debug"),
                   !.pc = "send"]
    ELSE IF k <= Len(t.msc_ids)
    THEN [t EXCEPT !.idx = k, !.log = Append(@, "debug"),
                   !.lookups = Append(@, t.msc_ids[k]),
                   !.inflight = @ + 1, !.pc = "get"]
    ELSE Leave([t EXCEPT !.log = Append(@, "debug")], "returned")

\* lines 60-64 and 74-92: the head of the loop over msc_ids with k the next
\* index, up to the next await (http.get of line 107, or send_notice of line 93).
LoopHead(t, k) ==
    IF k <= Len(t.msc_ids)
    THEN [t EXCEPT !.idx = k, !.log = Append(@, "debug"),
                   !.lookups = Append(@, t.msc_ids[k]),
                   !.inflight = @ + 1, !.pc = "get"]
    ELSE IF t.mscs = <<>>
    THEN Leave([t EXCEPT !.log = Append(@, "debug")], "returned")
    ELSE [t EXCEPT !.message = Compose(t.mscs), !.log = Append(@, "debug"),
                   !.pc = "send"]

\* Faulty variants: one of the three tests is missing.
IgnoredNoEdit(mxid, ev) == ev.sender = mxid \/ ev.msgtype \notin {TEXT, EMOTE}

IgnoredNoMsgtype(mxid, ev) == ev.sender = mxid \/ ev.edit /= None

\* lines 38, 42, 47: the events the handler ignores.
Ignored(mxid, ev) ==
    \/ ev.sender = mxid
    \/ ev.edit /= None
    \/ ev.msgtype \notin {TEXT, EMOTE}

\* lines 37-64: from the call to the first await.
Enter(mxid, e, ev) ==
    LET t == [InitTask EXCEPT !.event = e]
    IN  IF Ignored(mxid, ev) THEN Leave(t, "returned")
        ELSE LoopHead([t EXCEPT !.msc_ids = Dedup(PassiveMatch(ev.body))], 1)

\* One lookup is over: the request is no longer outstanding.
Outcome(t, r, outcome) ==
    [t EXCEPT !.inflight = @ - 1,
              !.results = Append(@, [id |-> t.msc_ids[t.idx], response |-> r,
                                     outcome |-> outcome])]

\* A faulty variant: the failure is logged and the loop goes on.
OnClientResponseErrorContinue(t) ==
    LoopHead([t EXCEPT !.log = Append(@, "error")], t.idx + 1)

\* lines 68-70: except ClientResponseError
OnClientResponseError(t) == Leave([t EXCEPT !.log = Append(@, "error")], "returned")

\* line 107 resumes with response r, then lines 108-110 up to the await of json().
AfterGet(t, r) ==
    IF r.fault = "connect"
    THEN Leave(Outcome(t, r, "ClientConnectionError"), "raised")
    ELSE IF StatusRaises(r.status)
    THEN OnClientResponseError(Outcome(t, r, "ClientResponseError"))
    ELSE [t EXCEPT !.response = r, !.pc = "json"]

\* line 110 resumes, then lines 112-133, 65-72 and the loop head again.
AfterJson(t) ==
    LET r == t.response
    IN  IF r.fault = "payload"
        THEN Leave(Outcome(t, r, "ClientPayloadError"), "raised")
        ELSE IF ~IsMsc(r.body)
        THEN LoopHead(Outcome(t, r, "none"), t.idx + 1)
        ELSE LoopHead([Outcome(t, r, "record") EXCEPT
                          !.mscs = Append(@, MSC(t.msc_ids[t.idx], r.body))],
                      t.idx + 1)

\* line 93: client.send_notice(room_id, message, html)
Notice(mxid, t) ==
    [sender |-> mxid, msgtype |-> NOTICE, edit |-> None, body |-> t.message,
     cause |-> t.event]

\* ------------------------------------------------------------------ actions
Idle(b) == b \in bots /\ task[b].pc = "done" /\ cursor[b] < Len(room)

\* Somebody posts a message to the room.
Post ==
    /\ inbox /= <<>>
    /\ room' = Append(room, Head(inbox))
    /\ inbox' = Tail(inbox)
    /\ UNCHANGED <<bots, cursor, task>>

\* line 27: the pattern does not occur in the body, the handler is not called.
Skip(b) ==
    /\ Idle(b)
    /\ PassiveMatch(room[cursor[b] + 1].body) = <<>>
    /\ cursor' = [cursor EXCEPT ![b] = @ + 1]
    /\ UNCHANGED <<bots, inbox, room, task>>

respond_to_message(b) ==
    /\ Idle(b)
    /\ PassiveMatch(room[cursor[b] + 1].body) /= <<>>
    /\ cursor' = [cursor EXCEPT ![b] = @ + 1]
    /\ task' = [task EXCEPT ![b] = Enter(b, cursor[b] + 1, room[cursor[b] + 1])]
    /\ UNCHANGED <<bots, inbox, room>>

http_get(b, R) ==
    /\ b \in bots
    /\ task[b].pc = "get"
    /\ \E r \in R : task' = [task EXCEPT ![b] = AfterGet(task[b], r)]
    /\ UNCHANGED <<bots, inbox, room, cursor>>

response_json(b) ==
    /\ b \in bots
    /\ task[b].pc = "json"
    /\ task' = [task EXCEPT ![b] = AfterJson(task[b])]
    /\ UNCHANGED <<bots, inbox, room, cursor>>

send_notice(b) ==
    /\ b \in bots
    /\ task[b].pc = "send"
    /\ room' = Append(room, Notice(b, task[b]))
    /\ task' = [task EXCEPT ![b] = Leave(task[b], "returned")]
    /\ UNCHANGED <<bots, inbox, cursor>>

\* The host cancels the task: CancelledError is raised at the await it is
\* suspended in, and the outstanding request is dropped.
Cancel(b) ==
    /\ b \in bots
    /\ task[b].pc \in {"get", "json", "send"}
    /\ task' = [task EXCEPT ![b] = Leave([task[b] EXCEPT !.inflight = 0], "cancelled")]
    /\ UNCHANGED <<bots, inbox, room, cursor>>

AllBots == 1..MaxBots

Start(bs, msgs) ==
    /\ bots = bs
    /\ inbox \in msgs
    /\ room = <<>>
    /\ cursor = [b \in AllBots |-> 0]
    /\ task = [b \in AllBots |-> InitTask]

\* One instance, one message, every kind of message and of response.
Init == Start({1}, {<<m>> : m \in Messages})

Next ==
    \/ Post
    \/ \E b \in AllBots : Skip(b)
    \/ \E b \in AllBots : respond_to_message(b)
    \/ \E b \in AllBots : http_get(b, Responses)
    \/ \E b \in AllBots : response_json(b)
    \/ \E b \in AllBots : send_notice(b)
    \/ \E b \in AllBots : Cancel(b)

Spec == Init /\ [][Next]_vars

\* Several instances in one room; a person posts one message, or a text
\* message and then an emote.
RoomInit ==
    Start(AllBots,
          {<<m>> : m \in RoomMessages}
              \cup {<<Message(0, TEXT, None, <<Ref("msc", "1")>>),
                      Message(0, EMOTE, None, <<Ref("MSC", "42")>>)>>})

RoomNext ==
    \/ Post
    \/ \E b \in AllBots : Skip(b)
    \/ \E b \in AllBots : respond_to_message(b)
    \/ \E b \in AllBots : http_get(b, RoomResponses)
    \/ \E b \in AllBots : response_json(b)
    \/ \E b \in AllBots : send_notice(b)
    \/ \E b \in AllBots : Cancel(b)

RoomSpec == RoomInit /\ [][RoomNext]_vars

\* ------------------------------------------------------------------ properties
Handled(b) == b \in bots /\ task[b].event /= 0

\* The event instance b is handling, or handled last.
Ev(b) == room[task[b].event]

\* The notices instance b sent for that event.
RepliesBy(b) ==
    {k \in 1..Len(room) :
        room[k].cause /= 0 /\ room[k].cause = task[b].event /\ room[k].sender = b}

Failures == {"ClientResponseError", "ClientConnectionError", "ClientPayloadError"}

Suppressed(b, ev) ==
    ev.sender = b \/ ev.edit /= None \/ (ev.msgtype /= TEXT /\ ev.msgtype /= EMOTE)

\* C1: once the lookup of an identifier has ended in a fetch failure, it is
\* the last lookup of the message: no lookup for a later identifier is issued,
\* the handler is over and no notice was sent for the message, whatever
\* records the earlier identifiers gave.
C1_FailFast ==
    \A b \in bots : \A k \in 1..Len(task[b].results) :
        task[b].results[k].outcome \in Failures
            => /\ k = Len(task[b].results)
               /\ Len(task[b].lookups) = k
               /\ task[b].pc = "done"
               /\ RepliesBy(b) = {}

C1_Witness ==
    \E b \in bots :
        /\ Len(task[b].msc_ids) = 3
        /\ Len(task[b].results) = 2
        /\ task[b].results[1].outcome = "record"
        /\ task[b].results[2].outcome = "ClientResponseError"
        /\ task[b].mscs /= <<>>
        /\ task[b].pc = "done"

\* C2: a response with a status outside 200-299 ends the lookup in a fetch
\* failure, never in a record and never in "no record".
C2_Non2xxFails ==
    \A b \in bots : \A k \in 1..Len(task[b].results) :
        LET res == task[b].results[k]
        IN  (res.response.fault /= "connect" /\ res.response.status \notin 200..299)
                => res.outcome \in Failures

\* C3: an event sent by the bot's own account, an edit, or an event that is
\* neither text nor emote causes no lookup and no notice.
C3_Suppressed ==
    \A b \in bots :
        (Handled(b) /\ Suppressed(b, Ev(b)))
            => /\ task[b].lookups = <<>>
               /\ task[b].pc = "done"
               /\ RepliesBy(b) = {}

C3_Witness ==
    \E b \in bots :
        /\ Handled(b)
        /\ Ev(b).sender /= b
        /\ Ev(b).msgtype = TEXT
        /\ Ev(b).edit /= None
        /\ Len(PassiveMatch(Ev(b).body)) = 2
        /\ task[b].ended = "returned"

IdsOf(match) == {match[k][2] : k \in 1..Len(match)}

FirstPos(match, id) ==
    CHOOSE p \in 1..Len(match) :
        match[p][2] = id /\ \A q \in 1..(p - 1) : match[q][2] /= id

\* C4: msc_ids holds no identifier twice, holds exactly the identifiers of the
\* matches, and orders them by their first occurrence among the matches.
C4_Dedup ==
    \A b \in bots :
        (Handled(b) /\ ~Suppressed(b, Ev(b)))
            => LET match == PassiveMatch(Ev(b).body)
                   ids == task[b].msc_ids
               IN  /\ \A i, j \in 1..Len(ids) : i /= j => ids[i] /= ids[j]
                   /\ {ids[i] : i \in 1..Len(ids)} = IdsOf(match)
                   /\ \A i, j \in 1..Len(ids) :
                          i < j => FirstPos(match, ids[i]) < FirstPos(match, ids[j])

C4_Witness ==
    \E b \in bots :
        /\ Handled(b)
        /\ ~Suppressed(b, Ev(b))
        /\ LET match == PassiveMatch(Ev(b).body)
           IN  /\ Len(match) = 3
               /\ match[1][2] = match[3][2]
               /\ match[1][2] /= match[2][2]
               /\ task[b].msc_ids = <<match[1][2], match[2][2]>>

C5_Plain(msc) ==
    <<Lit("[")>> \o msc.title \o <<Lit("]("), Lit(msc.url), Lit(") by "), Lit(msc.author)>>

RECURSIVE C5_Entries(_, _)
C5_Entries(mscs, n) ==
    IF n = 1 THEN <<Ref("MSC", mscs[1].id), Lit(": ")>> \o C5_Plain(mscs[1])
    ELSE C5_Entries(mscs, n - 1) \o <<Lit("\n\n"), Ref("MSC", mscs[n].id), Lit(": ")>>
            \o C5_Plain(mscs[n])

\* C5: the notice of a message with one record is "[title](url) by author"
\* without an "MSCid:" prefix; with two or more records it is the entries
\* "MSCid: [title](url) by author" in the order of the records, a blank line
\* between two entries.  The number of identifiers mentioned plays no part.
C5_Layout ==
    \A b \in bots : \A k \in RepliesBy(b) :
        LET mscs == task[b].mscs
        IN  /\ Len(mscs) >= 1
            /\ Len(mscs) = 1 => room[k].body = C5_Plain(mscs[1])
            /\ Len(mscs) >= 2 => room[k].body = C5_Entries(mscs, Len(mscs))

C5_Witness ==
    \E b \in bots : \E k \in RepliesBy(b) :
        /\ Len(task[b].msc_ids) = 3
        /\ Len(task[b].mscs) = 1
        /\ room[k].body = C5_Plain(task[b].mscs[1])

HasProposalLabel(body) ==
    /\ "labels" \in DOMAIN body
    /\ \E i \in 1..Len(body.labels) :
           "name" \in DOMAIN body.labels[i] /\ body.labels[i].name = "proposal"

RECURSIVE C6_Labelled(_, _)
C6_Labelled(results, n) ==
    IF n = 0 THEN <<>>
    ELSE IF HasProposalLabel(results[n].response.body)
    THEN Append(C6_Labelled(results, n - 1), results[n].id)
    ELSE C6_Labelled(results, n - 1)

\* C6: while no lookup of the message has failed, an identifier whose issue
\* lacks the proposal label is skipped and the next identifier is looked up,
\* and the records are those of the identifiers looked up so far whose issue
\* carries the label, in first-seen order; when every identifier has been
\* looked up, a notice is sent if there is a record and none if there is none.
C6_Filter ==
    \A b \in bots :
        LET t == task[b]
            n == Len(t.results)
        IN  (Handled(b) /\ \A k \in 1..n : t.results[k].outcome \notin Failures)
                => /\ \A k \in 1..n : t.results[k].id = t.msc_ids[k]
                   /\ \A k \in 1..n :
                          (t.results[k].outcome = "none" /\ k < Len(t.msc_ids))
                              => Len(t.lookups) > k
                   /\ [k \in 1..Len(t.mscs) |-> t.mscs[k].id] = C6_Labelled(t.results, n)
                   /\ (n = Len(t.msc_ids) /\ t.pc = "done" /\ t.ended = "returned")
                          => (RepliesBy(b) /= {} <=> C6_Labelled(t.results, n) /= <<>>)

C6_Witness ==
    \E b \in bots :
        /\ Len(task[b].results) = 3
        /\ task[b].results[1].outcome = "none"
        /\ task[b].results[2].outcome = "record"
        /\ task[b].results[3].outcome = "none"
        /\ [k \in 1..Len(task[b].mscs) |-> task[b].mscs[k].id] = <<task[b].msc_ids[2]>>
        /\ RepliesBy(b) /= {}

\* C7: at most one lookup of a message is outstanding; the lookups issued are
\* a prefix of msc_ids, so none is issued twice; a lookup is issued only when
\* every earlier one is over.
C7_Sequential ==
    \A b \in bots :
        LET t == task[b]
        IN  /\ t.inflight \in {0, 1}
            /\ t.inflight = 1 <=> t.pc \in {"get", "json"}
            /\ Len(t.lookups) <= Len(t.msc_ids)
            /\ t.lookups = SubSeq(t.msc_ids, 1, Len(t.lookups))
            /\ \A i, j \in 1..Len(t.lookups) : i /= j => t.lookups[i] /= t.lookups[j]
            /\ Len(t.results) <= Len(t.lookups)
            /\ Len(t.lookups) <= Len(t.results) + 1
            /\ t.pc \in {"get", "json"} => Len(t.lookups) = Len(t.results) + 1

C7_Witness ==
    \E b \in bots :
        /\ Len(task[b].lookups) = 3
        /\ Len(task[b].results) = 2
        /\ task[b].inflight = 1
        /\ task[b].pc = "json"

\* C8: every fetch failure, a refused status or a transport error, is caught
\* by the handler, which logs one entry at error severity and returns without
\* a notice.
C8_FailuresLogged ==
    \A b \in bots : \A k \in 1..Len(task[b].results) :
        task[b].results[k].outcome \in Failures
            => /\ task[b].ended = "returned"
               /\ Cardinality({i \in 1..Len(task[b].log) : task[b].log[i] = "error"}) = 1
               /\ RepliesBy(b) = {}

\* C9: a message gets at most one notice, and only when the lookup of every
\* identifier is over; a task cancelled before that has sent none.
C9_OneReply ==
    \A b \in bots :
        LET t == task[b]
        IN  /\ Cardinality(RepliesBy(b)) <= 1
            /\ (t.pc = "send" \/ RepliesBy(b) /= {})
                   => /\ Len(t.results) = Len(t.msc_ids)
                      /\ Len(t.lookups) = Len(t.msc_ids)
                      /\ t.inflight = 0
            /\ (t.ended = "cancelled" /\ Len(t.results) < Len(t.msc_ids))
                   => (t.pc = "done" /\ RepliesBy(b) = {})

C9_Witness ==
    \E b \in bots :
        /\ task[b].ended = "cancelled"
        /\ task[b].mscs /= <<>>
        /\ Len(task[b].results) < Len(task[b].msc_ids)
        /\ RepliesBy(b) = {}

BotNotices == {k \in 1..Len(room) : room[k].cause /= 0}

PersonMessages ==
    {k \in 1..Len(room) :
        room[k].cause = 0 /\ room[k].sender \notin bots /\ room[k].msgtype \in {TEXT, EMOTE}}

\* C10: what an instance posts is a notice; an instance that is handed a
\* notice of an instance issues no lookup, and no notice answers a notice; the
\* notices in the room number at most the instances times the text and emote
\* messages of persons.
C10_NoReplyChain ==
    /\ \A k \in BotNotices :
           /\ room[k].msgtype = NOTICE
           /\ room[room[k].cause].cause = 0
    /\ \A b \in bots :
           (Handled(b) /\ Ev(b).cause /= 0)
               => (task[b].lookups = <<>> /\ task[b].pc = "done")
    /\ Cardinality(BotNotices) <= Cardinality(bots) * Cardinality(PersonMessages)

C10_Witness ==
    \E b \in bots :
        /\ Handled(b)
        /\ Ev(b).cause /= 0
        /\ Ev(b).sender /= b
        /\ "7" \in IdsOf(PassiveMatch(Ev(b).body))
        /\ task[b].lookups = <<>>
        /\ Cardinality(PersonMessages) = 2
        /\ Cardinality(BotNotices) = 2 * Cardinality(bots)

====
